---- MODULE Spec2Model ----
(***************************************************************************)
(* A model of HashMap<KeyT, ValueT> (src/HashMap.hpp): a separate-chaining *)
(* hash table whose bucket array is doubled or halved by load-factor       *)
(* bounds.  A table is a record of the private members of the class; each  *)
(* member function is an operator from a table (and arguments) to the      *)
(* table it leaves behind and the value it returns; the actions apply      *)
(* these operators to the one table of the model.                          *)
(***************************************************************************)
EXTENDS Integers, Sequences, FiniteSets, TLC

\* ---------------------------------------------------------------- bounds
NumKeys == 3         \* how many distinct keys the caller uses
NumValues == 2       \* how many distinct values the caller uses
MaxPairs == 2        \* longest key / value vector given to the bulk constructor
MaxCapacity == 1024  \* a long capacity beyond this stands for signed overflow
MaxLines == 2        \* most lines of a database file
MaxMessageLen == 3   \* most chars of a message file
MaxThreshold == 3    \* largest threshold argument

\* ------------------------------------------------------ program constants
TABLE_FACTOR == 2
INITIAL_CAPACITY == 16
\* load factors are doubles in the source; here a load factor is the integer
\* number of sixty-fourths it is worth, so 1 is 64, 0.25 is 16 and 0.75 is 48
LF_ONE == 64
DEFAULT_LOWER_LOAD_FACTOR == 16
DEFAULT_UPPER_LOAD_FACTOR == 48

\* ----------------------------------------------------------------- inputs
\* keys are ints; several of them collide at capacity 16 and below
KeyPool == <<1, 17, 2, 3, 33, 18, 49>>
Keys == {KeyPool[i] : i \in 1..NumKeys}
Values == 0..(NumValues - 1)
\* ValueT(): the value-initialised int
DefaultValue == 0

\* <<lowerLoadFactor, upperLoadFactor>> handed to the two-argument constructor
BoundsArgs ==
    { <<16, 48>>, <<0, 64>>, <<48, 56>>, <<0, 1>>,   \* lower < upper
      <<4, 4>>, <<0, 0>>,                             \* lower = upper
      <<48, 16>>, <<-16, 48>>, <<16, 80>> }           \* rejected

SeqsUpTo(S, n) == UNION {[1..m -> S] : m \in 0..n}

\* ---------------------------------------------------------------- hashing
\* std::hash<int> of libstdc++: the identity
Hash(key) == key

RECURSIVE BitAnd(_, _)
BitAnd(a, b) ==
    IF a <= 0 \/ b <= 0 THEN 0
    ELSE (a % 2) * (b % 2) + 2 * BitAnd(a \div 2, b \div 2)

\* std::hash<KeyT>{}(key) & (tableSize - 1)
_getIndex(key, tableSize) == BitAnd(Hash(key), tableSize - 1)

\* table[_getIndex(key, tableSize)].push_back(pair(key, value))
_addToTable(key, value, table, tableSize) ==
    LET idx == _getIndex(key, tableSize)
    IN  [table EXCEPT ![idx] = Append(@, <<key, value>>)]

\* new vector<pair<KeyT, ValueT>>[n]: n empty buckets
NewTable(n) == [i \in 0..(n - 1) |-> << >>]

\* the position of the first pair of the bucket whose key is key, 0 if none
FindInBucket(bucket, key) ==
    LET hits == {i \in 1..Len(bucket) : bucket[i][1] = key}
    IN  IF hits = {} THEN 0 ELSE CHOOSE i \in hits : \A j \in hits : i <= j

\* ------------------------------------------------------------- the object
\* no table: before construction, after a constructor threw, after exit()
NoMap ==
    [_capacity |-> 0, _size |-> 0, _upperLoadFactor |-> 0,
     _lowerLoadFactor |-> 0, _table |-> NewTable(0)]

size(h) == h._size
capacity(h) == h._capacity

\* (double) _size / _capacity compared with a load factor lf:
\* size / capacity > lf  iff  size * LF_ONE > lf * capacity  (capacity > 0)
RatioAbove(sz, cap, lf) == sz * LF_ONE > lf * cap
RatioBelow(sz, cap, lf) == sz * LF_ONE < lf * cap

empty(h) == h._size = 0

\* ------------------------------------------------------------ PointerToPair
\* A vector iterator is the address it holds: <<bucket, position>>, with
\* position Len + 1 for end().  Elements of different buckets have different
\* addresses.
VecBegin(h, b) == <<b, 1>>
VecEnd(h, b) == <<b, Len(h._table[b]) + 1>>

\* while (_bucketIndex < _capacity && _table[_bucketIndex].empty()) ++_bucketIndex
\* leaves _bucketIndex at the first bucket from b on that is not empty, or at
\* _capacity when there is none
SkipEmptyBuckets(h, b) ==
    LET rest == {c \in b..(h._capacity - 1) : Len(h._table[c]) # 0}
    IN  IF rest # {} THEN CHOOSE c \in rest : \A d \in rest : c <= d
        ELSE IF b < h._capacity THEN h._capacity
        ELSE b

_getNextBucketAndIterator(h, it) ==
    LET b == SkipEmptyBuckets(h, it._bucketIndex)
    IN  IF b # h._capacity
        THEN [it EXCEPT !._bucketIndex = b, !._vectorIterator = VecBegin(h, b)]
        ELSE [_end |-> TRUE, _bucketIndex |-> b,
              _vectorIterator |-> VecEnd(h, h._capacity - 1)]

\* PointerToPair(hashMap, end)
PointerToPair(h, isEnd) ==
    LET it == _getNextBucketAndIterator(h,
                  [_end |-> isEnd, _bucketIndex |-> 0, _vectorIterator |-> <<0, 0>>])
    IN  IF it._end
        THEN [it EXCEPT !._vectorIterator = VecEnd(h, h._capacity - 1)]
        ELSE it

begin(h) == PointerToPair(h, FALSE)
end(h) == PointerToPair(h, TRUE)

\* operator*: the pair the vector iterator points at
Deref(h, it) == h._table[it._vectorIterator[1]][it._vectorIterator[2]]

\* mutant: ++ goes on to the next bucket whatever is left in this one
IterNext_NextBucket(h, it) ==
    _getNextBucketAndIterator(h, [it EXCEPT !._bucketIndex = @ + 1])

\* prefix operator++
IterNext(h, it) ==
    LET moved == [it EXCEPT !._vectorIterator = <<@[1], @[2] + 1>>]
    IN  IF moved._vectorIterator = VecEnd(h, moved._bucketIndex)
        THEN _getNextBucketAndIterator(h,
                 [moved EXCEPT !._bucketIndex = @ + 1])
        ELSE moved

\* PointerToPair::operator== for two iterators of the same map
IterEq(a, b) ==
    (a._end /\ b._end) \/ a._vectorIterator = b._vectorIterator

\* for (const pair &p : h): the pairs the loop sees, in the order it sees them
RECURSIVE IterateFrom(_, _, _)
IterateFrom(h, it, visited) ==
    IF IterEq(it, end(h)) THEN visited
    ELSE IterateFrom(h, IterNext(h, it), Append(visited, Deref(h, it)))

Iterate(h) == IterateFrom(h, begin(h), << >>)

\* ------------------------------------------------------------------ resize
\* for (iterator i = begin(); i != end(); ++i) _addToTable(..., newTable, ...)
\* mutant: the loop assigns the pair to its bucket of newTable in place of
\* the push_back of _addToTable
RECURSIVE ReHashLoop_Assign(_, _, _, _)
ReHashLoop_Assign(h, it, newTable, newCapacity) ==
    IF IterEq(it, end(h)) THEN newTable
    ELSE ReHashLoop_Assign(h, IterNext(h, it),
                           [newTable EXCEPT
                               ![_getIndex(Deref(h, it)[1], newCapacity)] =
                                   <<Deref(h, it)>>],
                           newCapacity)

RECURSIVE ReHashLoop(_, _, _, _)
ReHashLoop(h, it, newTable, newCapacity) ==
    IF IterEq(it, end(h)) THEN newTable
    ELSE ReHashLoop(h, IterNext(h, it),
                    _addToTable(Deref(h, it)[1], Deref(h, it)[2],
                                newTable, newCapacity),
                    newCapacity)

\* mutant: the loop calls _addToTable with _capacity, the size of the old
\* array, as tableSize
_reHash_OldMask(h, newCapacity) ==
    [h EXCEPT !._table = ReHashLoop(h, begin(h), NewTable(newCapacity),
                                    h._capacity),
              !._capacity = newCapacity]

_reHash(h, newCapacity) ==
    [h EXCEPT !._table = ReHashLoop(h, begin(h), NewTable(newCapacity),
                                    newCapacity),
              !._capacity = newCapacity]

\* the value of newCapacity when the while loop of _keepUpperLoadFactor
\* leaves, or Overflowed when newCapacity *= TABLE_FACTOR overflows long
Overflowed == -1

\* mutant: an if in place of the while, the capacity is doubled once
GrowLoop_Once(sz, newCapacity, upper) ==
    IF RatioAbove(sz, newCapacity, upper)
    THEN newCapacity * TABLE_FACTOR
    ELSE newCapacity

\* mutant: each round of the loop doubles the capacity twice
RECURSIVE GrowLoop_Twice(_, _, _)
GrowLoop_Twice(sz, newCapacity, upper) ==
    IF RatioAbove(sz, newCapacity, upper)
    THEN IF newCapacity * TABLE_FACTOR * TABLE_FACTOR > MaxCapacity
         THEN Overflowed
         ELSE GrowLoop_Twice(sz, newCapacity * TABLE_FACTOR * TABLE_FACTOR,
                             upper)
    ELSE newCapacity

RECURSIVE GrowLoop(_, _, _)
GrowLoop(sz, newCapacity, upper) ==
    IF RatioAbove(sz, newCapacity, upper)
    THEN IF newCapacity * TABLE_FACTOR > MaxCapacity
         THEN Overflowed
         ELSE GrowLoop(sz, newCapacity * TABLE_FACTOR, upper)
    ELSE newCapacity

\* The result of a member function: the table it leaves, and fate "ok" or
\* "overflow" (the growth loop overflowed: undefined behaviour).
_keepUpperLoadFactor(h) ==
    IF RatioAbove(h._size, h._capacity, h._upperLoadFactor)
    THEN LET newCapacity == GrowLoop(h._size, h._capacity, h._upperLoadFactor)
         IN  IF newCapacity = Overflowed
             THEN [map |-> h, fate |-> "overflow"]
             ELSE [map |-> _reHash(h, newCapacity), fate |-> "ok"]
    ELSE [map |-> h, fate |-> "ok"]

\* mutant: the test _capacity != 1 is left out
_keepLowerLoadFactor_NoFloor(h) ==
    IF RatioBelow(h._size, h._capacity, h._lowerLoadFactor)
    THEN _reHash(h, h._capacity \div TABLE_FACTOR)
    ELSE h

\* mutant: the load factor is compared with _upperLoadFactor
_keepLowerLoadFactor_UpperBound(h) ==
    IF RatioBelow(h._size, h._capacity, h._upperLoadFactor) /\ h._capacity # 1
    THEN _reHash(h, h._capacity \div TABLE_FACTOR)
    ELSE h

\* mutant: the table is halved until the lower bound holds or _capacity is 1
RECURSIVE _keepLowerLoadFactor_Loop(_)
_keepLowerLoadFactor_Loop(h) ==
    IF RatioBelow(h._size, h._capacity, h._lowerLoadFactor) /\ h._capacity # 1
    THEN _keepLowerLoadFactor_Loop(_reHash(h, h._capacity \div TABLE_FACTOR))
    ELSE h

_keepLowerLoadFactor(h) ==
    IF RatioBelow(h._size, h._capacity, h._lowerLoadFactor) /\ h._capacity # 1
    THEN _reHash(h, h._capacity \div TABLE_FACTOR)
    ELSE h

\* ----------------------------------------------------------------- queries
\* mutant: only the first pair of the bucket is compared with the key
containsKey_FirstOnly(h, key) ==
    LET bucket == h._table[_getIndex(key, h._capacity)]
    IN  Len(bucket) > 0 /\ bucket[1][1] = key

containsKey(h, key) ==
    LET bucket == h._table[_getIndex(key, h._capacity)]
    IN  Len(bucket) > 0 /\ FindInBucket(bucket, key) # 0

\* mutant: the value of the first pair of the bucket, its key not compared
at_FirstOfBucket(h, key) ==
    LET bucket == h._table[_getIndex(key, h._capacity)]
    IN  IF Len(bucket) > 0 THEN [threw |-> FALSE, value |-> bucket[1][2]]
        ELSE [threw |-> TRUE, value |-> DefaultValue]

\* at(key): the value found, or threw = TRUE for std::out_of_range
at(h, key) ==
    LET bucket == h._table[_getIndex(key, h._capacity)]
        i == FindInBucket(bucket, key)
    IN  IF i # 0 THEN [threw |-> FALSE, value |-> bucket[i][2]]
        ELSE [threw |-> TRUE, value |-> DefaultValue]

\* mutant: the bucket's size whether the key is there or not
bucketSize_NoThrow(h, key) ==
    [threw |-> FALSE, value |-> Len(h._table[_getIndex(key, h._capacity)])]

\* bucketSize(key): the size of the key's bucket, or threw = TRUE for
\* std::out_of_range
bucketSize(h, key) ==
    IF ~containsKey(h, key)
    THEN [threw |-> TRUE, value |-> 0]
    ELSE [threw |-> FALSE,
          value |-> Len(h._table[_getIndex(key, h._capacity)])]

\* --------------------------------------------------------------- mutation
\* mutant: a key that is present gets the new value, as in the bulk constructor
insert_Overwrite(h, key, value) ==
    IF containsKey(h, key)
    THEN LET idx == _getIndex(key, h._capacity)
         IN  [map |-> [h EXCEPT !._table[idx] =
                          [j \in 1..Len(@) |->
                              IF @[j][1] = key THEN <<key, value>> ELSE @[j]]],
              ret |-> FALSE, fate |-> "ok", old |-> h]
    ELSE LET added == [h EXCEPT
                         !._table = _addToTable(key, value, h._table, h._capacity),
                         !._size = @ + 1]
             kept == _keepUpperLoadFactor(added)
         IN  [map |-> kept.map, ret |-> TRUE, fate |-> kept.fate,
              old |-> added]

insert(h, key, value) ==
    IF containsKey(h, key)
    THEN [map |-> h, ret |-> FALSE, fate |-> "ok", old |-> h]
    ELSE LET added == [h EXCEPT
                         !._table = _addToTable(key, value, h._table, h._capacity),
                         !._size = @ + 1]
             kept == _keepUpperLoadFactor(added)
         IN  [map |-> kept.map, ret |-> TRUE, fate |-> kept.fate,
              old |-> added]

\* bucket.erase(i): the bucket without its i-th pair
RemoveAt(bucket, i) ==
    [j \in 1..(Len(bucket) - 1) |-> IF j < i THEN bucket[j] ELSE bucket[j + 1]]

\* mutant: bucket.erase(bucket.begin()) in place of bucket.erase(i)
erase_FirstOfBucket(h, key) ==
    LET idx == _getIndex(key, h._capacity)
        i == FindInBucket(h._table[idx], key)
    IN  IF i # 0
        THEN LET removed == [h EXCEPT !._table[idx] = RemoveAt(@, 1),
                                      !._size = @ - 1]
             IN  [map |-> _keepLowerLoadFactor(removed), ret |-> TRUE,
                  fate |-> "ok", old |-> removed]
        ELSE [map |-> h, ret |-> FALSE, fate |-> "ok", old |-> h]

\* mutant: _keepLowerLoadFactor() is called after the loop as well, when the
\* key was not found
erase_AlwaysKeepLower(h, key) ==
    LET idx == _getIndex(key, h._capacity)
        i == FindInBucket(h._table[idx], key)
    IN  IF i # 0
        THEN LET removed == [h EXCEPT !._table[idx] = RemoveAt(@, i),
                                      !._size = @ - 1]
             IN  [map |-> _keepLowerLoadFactor(removed), ret |-> TRUE,
                  fate |-> "ok", old |-> removed]
        ELSE [map |-> _keepLowerLoadFactor(h), ret |-> FALSE, fate |-> "ok",
              old |-> h]

erase(h, key) ==
    LET idx == _getIndex(key, h._capacity)
        i == FindInBucket(h._table[idx], key)
    IN  IF i # 0
        THEN LET removed == [h EXCEPT !._table[idx] = RemoveAt(@, i),
                                      !._size = @ - 1]
             IN  [map |-> _keepLowerLoadFactor(removed), ret |-> TRUE,
                  fate |-> "ok", old |-> removed]
        ELSE [map |-> h, ret |-> FALSE, fate |-> "ok", old |-> h]

\* mutant: _keepUpperLoadFactor() is not called after the push_back
operatorSubscript_NoResize(h, key) ==
    LET idx == _getIndex(key, h._capacity)
        i == FindInBucket(h._table[idx], key)
    IN  IF i # 0
        THEN [map |-> h, ref |-> h._table[idx][i][2], fate |-> "ok",
              old |-> h]
        ELSE LET pushed == [h EXCEPT
                              !._table[idx] = Append(@, <<key, DefaultValue>>),
                              !._size = @ + 1]
             IN  [map |-> pushed, ref |-> DefaultValue, fate |-> "ok",
                  old |-> pushed]

\* operator[]: ref is the value the returned reference designates, old the
\* object as _keepUpperLoadFactor() found it
RECURSIVE operatorSubscript(_, _)
operatorSubscript(h, key) ==
    LET idx == _getIndex(key, h._capacity)
        i == FindInBucket(h._table[idx], key)
    IN  IF i # 0
        THEN [map |-> h, ref |-> h._table[idx][i][2], fate |-> "ok",
              old |-> h]
        ELSE LET pushed == [h EXCEPT
                              !._table[idx] = Append(@, <<key, DefaultValue>>),
                              !._size = @ + 1]
                 kept == _keepUpperLoadFactor(pushed)
             IN  IF kept.fate = "ok"
                 THEN [operatorSubscript(kept.map, key) EXCEPT !.old = pushed]
                 ELSE [map |-> kept.map, ref |-> DefaultValue,
                       fate |-> kept.fate, old |-> pushed]

\* mutant: _keepLowerLoadFactor() is called once the buckets are cleared
clear_Shrink(h) ==
    _keepLowerLoadFactor(
        [h EXCEPT !._table = [i \in DOMAIN h._table |-> << >>], !._size = 0])

clear(h) ==
    [h EXCEPT !._table = [i \in DOMAIN h._table |-> << >>], !._size = 0]

\* ----------------------------------------------------------- construction
\* HashMap(lowerLoadFactor, upperLoadFactor): thrown is TRUE when the body
\* throws std::invalid_argument
HashMap_bounds(lowerLoadFactor, upperLoadFactor) ==
    LET h == [_capacity |-> INITIAL_CAPACITY, _size |-> 0,
              _upperLoadFactor |-> upperLoadFactor,
              _lowerLoadFactor |-> lowerLoadFactor,
              _table |-> NewTable(INITIAL_CAPACITY)]
    IN  IF upperLoadFactor < lowerLoadFactor
        THEN [map |-> NoMap, thrown |-> TRUE]
        ELSE IF lowerLoadFactor < 0 \/ upperLoadFactor > LF_ONE
        THEN [map |-> NoMap, thrown |-> TRUE]
        ELSE [map |-> h, thrown |-> FALSE]

\* HashMap()
HashMap_default ==
    HashMap_bounds(DEFAULT_LOWER_LOAD_FACTOR, DEFAULT_UPPER_LOAD_FACTOR)

\* mutant: a key that is present keeps its first value
BulkStep_FirstWins(h, key, value) ==
    IF containsKey(h, key)
    THEN h
    ELSE [h EXCEPT !._table = _addToTable(key, value, h._table, h._capacity),
                   !._size = @ + 1]

\* mutant: ++_size follows the if, and counts a key that was overwritten
BulkStep_CountsOverwrite(h, key, value) ==
    IF containsKey(h, key)
    THEN LET idx == _getIndex(key, h._capacity)
         IN  [h EXCEPT !._table[idx] =
                 [j \in 1..Len(@) |->
                     IF @[j][1] = key THEN <<key, value>> ELSE @[j]],
                       !._size = @ + 1]
    ELSE [h EXCEPT !._table = _addToTable(key, value, h._table, h._capacity),
                   !._size = @ + 1]

\* the body of the for loop of HashMap(keyVector, valueVector)
BulkStep(h, key, value) ==
    IF containsKey(h, key)
    THEN LET idx == _getIndex(key, h._capacity)
         IN  [h EXCEPT !._table[idx] =
                 [j \in 1..Len(@) |->
                     IF @[j][1] = key THEN <<key, value>> ELSE @[j]]]
    ELSE [h EXCEPT !._table = _addToTable(key, value, h._table, h._capacity),
                   !._size = @ + 1]

RECURSIVE BulkLoop(_, _, _, _)
BulkLoop(h, keyVector, valueVector, i) ==
    IF i > Len(keyVector) THEN h
    ELSE BulkLoop(BulkStep(h, keyVector[i], valueVector[i]),
                  keyVector, valueVector, i + 1)

\* HashMap(keyVector, valueVector)
HashMap_vectors(keyVector, valueVector) ==
    IF Len(keyVector) # Len(valueVector)
    THEN [map |-> NoMap, thrown |-> TRUE, fate |-> "ok", old |-> NoMap]
    ELSE LET loaded == BulkLoop(HashMap_default.map, keyVector, valueVector, 1)
             kept == _keepUpperLoadFactor(loaded)
         IN  [map |-> kept.map, thrown |-> FALSE, fate |-> kept.fate,
              old |-> loaded]

\* ----------------------------------------------------- copying and comparing
\* mutant: _table(other._table) in place of a new array filled from other
HashMap_copy_Shallow(src) ==
    [map |-> src, shares |-> TRUE]

\* HashMap(const HashMap &other): shares tells whether the new object's
\* _table points to the array of other
HashMap_copy(src) ==
    [map |-> [_capacity |-> src._capacity, _size |-> src._size,
              _upperLoadFactor |-> src._upperLoadFactor,
              _lowerLoadFactor |-> src._lowerLoadFactor,
              _table |-> ReHashLoop(src, begin(src), NewTable(src._capacity),
                                    src._capacity)],
     shares |-> FALSE]

\* swap(first, second): every member changes sides
swap(first, second) ==
    [first |-> second, second |-> first]

\* operator=(HashMap other): the parameter is a copy of the right-hand side,
\* swapped with *this; param is what the parameter holds when it is destroyed
operatorAssign(this, src) ==
    LET copy == HashMap_copy(src)
        swapped == swap(this, copy.map)
    IN  [map |-> swapped.first, param |-> swapped.second,
         shares |-> copy.shares]

\* mutant: _capacity is not compared
operatorEq_NoCapacity(this, that) ==
    IF /\ this._size = that._size
       /\ this._upperLoadFactor = that._upperLoadFactor
       /\ this._lowerLoadFactor = that._lowerLoadFactor
    THEN LET pairs == Iterate(that)
         IN  \A i \in 1..Len(pairs) :
                 /\ ~at(this, pairs[i][1]).threw
                 /\ at(this, pairs[i][1]).value = pairs[i][2]
    ELSE FALSE

\* operator==
operatorEq(this, that) ==
    IF /\ this._size = that._size
       /\ this._upperLoadFactor = that._upperLoadFactor
       /\ this._lowerLoadFactor = that._lowerLoadFactor
       /\ this._capacity = that._capacity
    THEN LET pairs == Iterate(that)
         IN  \A i \in 1..Len(pairs) :
                 /\ ~at(this, pairs[i][1]).threw
                 /\ at(this, pairs[i][1]).value = pairs[i][2]
    ELSE FALSE

\* ------------------------------------------------------------ SpamDetector
\* A char is its code; a string is the sequence of its chars.
EXIT_SUCCESS == 0
EXIT_FAILURE == 1

\* the chars of the messages: 'a', 'A' and 'b'
Alphabet == {97, 65, 98}

\* the lines the database file is made of, <<sequence, score>>:
\* "a,1"  "Ab,2"  "aa,1"  "a,3"
DatabaseLines ==
    { <<<<97>>, 1>>, <<<<65, 98>>, 2>>, <<<<97, 97>>, 1>>, <<<<97>>, 3>> }

Databases == SeqsUpTo(DatabaseLines, MaxLines)
Messages == SeqsUpTo(Alphabet, MaxMessageLen)
Thresholds == 0..MaxThreshold

\* std::tolower in the "C" locale
tolower(c) == IF c \in 65..90 THEN c + 32 ELSE c

makeStringLowerCase(str) == [i \in 1..Len(str) |-> tolower(str[i])]

\* the int that stands for a std::string as a key of HashMap<string, int>:
\* different strings, different ints
RECURSIVE StringKey(_)
StringKey(str) ==
    IF str = << >> THEN 0 ELSE str[1] + 128 * StringKey(Tail(str))

\* databaseMap[sequence] = score
AssignSubscript(h, key, value) ==
    LET after == operatorSubscript(h, key).map
        idx == _getIndex(key, after._capacity)
    IN  [after EXCEPT !._table[idx] =
            [j \in 1..Len(@) |-> IF @[j][1] = key THEN <<key, value>> ELSE @[j]]]

\* createDatabaseMap, from line i on: the map and the set wordsLen it leaves
RECURSIVE createDatabaseMapFrom(_, _, _, _)
createDatabaseMapFrom(database, i, databaseMap, wordsLen) ==
    IF i > Len(database)
    THEN [databaseMap |-> databaseMap, wordsLen |-> wordsLen]
    ELSE LET sequence == makeStringLowerCase(database[i][1])
             score == database[i][2]
         IN  createDatabaseMapFrom(database, i + 1,
                 AssignSubscript(databaseMap, StringKey(sequence), score),
                 wordsLen \union {Len(sequence)})

createDatabaseMap(database) ==
    createDatabaseMapFrom(database, 1, HashMap_default.map, {})

\* massageFile.readsome(currentSequence, n) with the get position at cursor:
\* the chars it reads, n of them or as many as the file has left
readsome(message, cursor, n) ==
    SubSeq(message, cursor + 1,
           IF cursor + n <= Len(message) THEN cursor + n ELSE Len(message))

\* mutant: the cursor moves on by the length of the frame
ScanFrames_NoOverlap(message, databaseMap, currentLen, cursor, result) ==
    LET RECURSIVE Scan(_, _)
        Scan(c, res) ==
            LET currentSequence == readsome(message, c, currentLen)
            IN  IF Len(currentSequence) = currentLen
                THEN LET key == StringKey(makeStringLowerCase(currentSequence))
                     IN  Scan(c + currentLen,
                              IF containsKey(databaseMap, key)
                              THEN res + operatorSubscript(databaseMap, key).ref
                              ELSE res)
                ELSE res
    IN  Scan(cursor, result)

\* the while loop of generateScore for one currentLen: every frame of that
\* length from cursor on, the cursor going up by 1
RECURSIVE ScanFrames(_, _, _, _, _)
ScanFrames(message, databaseMap, currentLen, cursor, result) ==
    LET currentSequence == readsome(message, cursor, currentLen)
    IN  IF Len(currentSequence) = currentLen
        THEN LET currentString == makeStringLowerCase(currentSequence)
                 key == StringKey(currentString)
             IN  ScanFrames(message, databaseMap, currentLen, cursor + 1,
                            IF containsKey(databaseMap, key)
                            THEN result + operatorSubscript(databaseMap, key).ref
                            ELSE result)
        ELSE result

\* the for loop of generateScore over the lengths left, in ascending order;
\* seekg(std::ios::beg) puts the cursor back at 0 for each
RECURSIVE ScanLengths(_, _, _, _)
ScanLengths(message, databaseMap, lengths, result) ==
    IF lengths = {} THEN result
    ELSE LET currentLen == CHOOSE n \in lengths : \A m \in lengths : n <= m
         IN  ScanLengths(message, databaseMap, lengths \ {currentLen},
                         ScanFrames(message, databaseMap, currentLen, 0, result))

generateScore(message, databaseMap, wordsLen) ==
    IF wordsLen # {} THEN ScanLengths(message, databaseMap, wordsLen, 0)
    ELSE 0

\* no run of SpamDetector
NoSpam ==
    [pc |-> "none", database |-> << >>, message |-> << >>, threshold |-> 0,
     wordsLen |-> {}, output |-> "", code |-> EXIT_SUCCESS]

\* ------------------------------------------------------------ state machine
VARIABLES
    map,      \* the HashMap object (NoMap when there is none)
    phase,    \* "none": not constructed; "live"; "invalid_argument": the
              \* constructor threw; "exited": exit(EXIT_FAILURE); "hung": the
              \* call never returns
    op,       \* the last call: its name, arguments, result and fate
    pre,      \* the object as it was before the last call
    other,    \* a second HashMap object (NoMap when there is none)
    aliased,  \* map._table and other._table point to the same array
    spam      \* the run of SpamDetector: its inputs and what it printed

vars == <<map, phase, op, pre, other, aliased, spam>>

\* on: the object the call was made on; fate: "ok", "overflow" (the growth
\* loop ran past the largest capacity) or "bad_alloc" (an allocation failed)
NoOp ==
    [name |-> "none", key |-> 0, value |-> 0, keys |-> << >>, values |-> << >>,
     lower |-> 0, upper |-> 0, ret |-> FALSE, ref |-> 0, on |-> "map",
     fate |-> "ok"]

Init ==
    /\ map = NoMap
    /\ phase = "none"
    /\ op = NoOp
    /\ pre = NoMap
    /\ other = NoMap
    /\ aliased = FALSE
    /\ spam = NoSpam

\* what the process does once a call ran into the overflow of the growth
\* loop: exit through the bad_alloc handler of _reHash, or never return
OverflowFates == {"exited", "hung"}

\* catch (const std::bad_alloc &): the message goes to cerr and the process
\* exits; object is what the call leaves behind
AllocationFailed(call, object) ==
    /\ op' = [call EXCEPT !.fate = "bad_alloc"]
    /\ map' = object
    /\ phase' = "exited"

\* mutant: the handler of _reHash prints the message and returns, the call
\* goes on with the table it had
Finish_NoExit(call, r) ==
    /\ pre' = map
    /\ UNCHANGED <<other, aliased, spam>>
    /\ \/ /\ r.fate = "ok"
          /\ op' = call
          /\ map' = r.map
          /\ phase' = "live"
       \/ /\ r.fate = "ok"
          /\ r.map # r.old
          /\ op' = [call EXCEPT !.fate = "bad_alloc"]
          /\ map' = r.old
          /\ phase' = "live"
       \/ /\ r.fate = "overflow"
          /\ op' = [call EXCEPT !.fate = "overflow"]
          /\ map' = NoMap
          /\ phase' \in OverflowFates

\* the state after a call with result r (fields map, fate and old): the call
\* returns, or the allocation in the _reHash it ran failed, or its growth
\* loop overflowed
Finish(call, r) ==
    /\ pre' = map
    /\ UNCHANGED <<other, aliased, spam>>
    /\ \/ /\ r.fate = "ok"
          /\ op' = call
          /\ map' = r.map
          /\ phase' = "live"
       \/ /\ r.fate = "ok"
          /\ r.map # r.old
          /\ AllocationFailed(call, r.old)
       \/ /\ r.fate = "overflow"
          /\ op' = [call EXCEPT !.fate = "overflow"]
          /\ map' = NoMap
          /\ phase' \in OverflowFates

Construct ==
    /\ phase = "none"
    /\ \E b \in BoundsArgs :
        LET r == HashMap_bounds(b[1], b[2])
            call == [NoOp EXCEPT !.name = "HashMap_bounds",
                                 !.lower = b[1], !.upper = b[2]]
        IN  /\ pre' = map
            /\ UNCHANGED <<other, aliased, spam>>
            /\ \/ /\ op' = call
                  /\ map' = r.map
                  /\ phase' = IF r.thrown THEN "invalid_argument" ELSE "live"
               \/ AllocationFailed(call, NoMap)

ConstructFromVectors ==
    /\ phase = "none"
    /\ \E ks \in SeqsUpTo(Keys, MaxPairs), vs \in SeqsUpTo(Values, MaxPairs) :
        LET r == HashMap_vectors(ks, vs)
            call == [NoOp EXCEPT !.name = "HashMap_vectors",
                                 !.keys = ks, !.values = vs]
        IN  \/ /\ r.thrown
               /\ op' = call
               /\ pre' = map
               /\ map' = NoMap
               /\ phase' = "invalid_argument"
               /\ UNCHANGED <<other, aliased, spam>>
            \/ /\ ~r.thrown
               /\ Finish(call, r)
            \/ /\ pre' = map
               /\ AllocationFailed(call, NoMap)
               /\ UNCHANGED <<other, aliased, spam>>

Insert ==
    /\ phase = "live"
    /\ \E k \in Keys, v \in Values :
        LET r == insert(map, k, v)
        IN  Finish([NoOp EXCEPT !.name = "insert", !.key = k, !.value = v,
                                !.ret = r.ret], r)

Erase ==
    /\ phase = "live"
    /\ \E k \in Keys :
        LET r == erase(map, k)
        IN  Finish([NoOp EXCEPT !.name = "erase", !.key = k, !.ret = r.ret], r)

Subscript ==
    /\ phase = "live"
    /\ \E k \in Keys :
        LET r == operatorSubscript(map, k)
        IN  Finish([NoOp EXCEPT !.name = "operator[]", !.key = k,
                                !.ref = r.ref], r)

Clear ==
    /\ phase = "live"
    /\ Finish([NoOp EXCEPT !.name = "clear"],
              [map |-> clear(map), fate |-> "ok", old |-> clear(map)])

\* HashMap copy(map); and the calls that follow are made on the copy
Copy ==
    /\ phase = "live"
    /\ LET r == HashMap_copy(map)
           call == [NoOp EXCEPT !.name = "copy"]
       IN  /\ pre' = map
           /\ UNCHANGED <<other, aliased, spam>>
           /\ \/ /\ op' = call
                 /\ map' = r.map
                 /\ phase' = "live"
              \/ AllocationFailed(call, map)

Next ==
    \/ Construct
    \/ ConstructFromVectors
    \/ Insert
    \/ Erase
    \/ Subscript
    \/ Clear
    \/ Copy

Spec == Init /\ [][Next]_vars

Live == phase = "live"

TypeOK ==
    /\ phase \in {"none", "live", "invalid_argument", "exited", "hung"}
    /\ Live => /\ map._capacity \in 1..MaxCapacity
               /\ map._size \in 0..NumKeys
               /\ DOMAIN map._table = 0..(map._capacity - 1)

\* ------------------------------------------------- two objects: map and other
\* The second specification runs two HashMap objects side by side: each is
\* constructed, copied from or assigned from the other, and changed by the
\* same member functions. pre and spam stay as Init leaves them.
TwoKeys == {KeyPool[1], KeyPool[2]}
TwoBoundsArgs == { <<16, 48>>, <<0, 64>>, <<0, 0>> }
Objects == {"map", "other"}

Object(t) == IF t = "map" THEN map ELSE other
Bystander(t) == IF t = "map" THEN other ELSE map

\* the call leaves object in t and bystander in the other variable
Put(t, object, bystander) ==
    IF t = "map"
    THEN map' = object /\ other' = bystander
    ELSE other' = object /\ map' = bystander

\* what the object that was not called can be once the array table of the
\* called one was written (freed = FALSE) or deleted (freed = TRUE): itself
\* when the two share no array; with a shared array it sees what was written,
\* and after the delete[] it reads freed memory
Seen(t, table, freed) ==
    IF ~aliased THEN {Bystander(t)}
    ELSE IF ~freed THEN {[Bystander(t) EXCEPT !._table = table]}
    ELSE {[Bystander(t) EXCEPT !._table = table],
          [Bystander(t) EXCEPT !._table = NewTable(Bystander(t)._capacity)]}

\* the state after a call on object t with result r (fields map, fate, old)
TwoFinish(call, t, r) ==
    /\ UNCHANGED <<pre, spam>>
    /\ \/ /\ r.fate = "ok"
          /\ op' = call
          /\ phase' = "live"
          /\ \E y \in Seen(t, r.old._table, r.map # r.old) :
                 Put(t, r.map, y)
          /\ aliased' = (aliased /\ r.map = r.old)
       \/ /\ r.fate = "ok"
          /\ r.map # r.old
          /\ op' = [call EXCEPT !.fate = "bad_alloc"]
          /\ phase' = "exited"
          /\ \E y \in Seen(t, r.old._table, FALSE) : Put(t, r.old, y)
          /\ aliased' = aliased
       \/ /\ r.fate = "overflow"
          /\ op' = [call EXCEPT !.fate = "overflow"]
          /\ phase' \in OverflowFates
          /\ \E y \in Seen(t, r.old._table, FALSE) : Put(t, r.old, y)
          /\ aliased' = aliased

\* HashMap a(lower, upper); and later HashMap b(lower, upper);
TwoConstruct ==
    \E t \in Objects, b \in TwoBoundsArgs :
        LET r == HashMap_bounds(b[1], b[2])
            call == [NoOp EXCEPT !.name = "HashMap_bounds", !.on = t]
        IN  /\ \/ t = "map" /\ phase = "none"
               \/ t = "other" /\ phase = "live" /\ other = NoMap
            /\ ~r.thrown
            /\ UNCHANGED <<pre, spam, aliased>>
            /\ \/ /\ op' = call
                  /\ phase' = "live"
                  /\ Put(t, r.map, Bystander(t))
               \/ /\ op' = [call EXCEPT !.fate = "bad_alloc"]
                  /\ phase' = "exited"
                  /\ UNCHANGED <<map, other>>

\* HashMap other(map);
TwoCopy ==
    /\ phase = "live"
    /\ other = NoMap
    /\ LET r == HashMap_copy(map)
           call == [NoOp EXCEPT !.name = "copy", !.on = "other"]
       IN  /\ UNCHANGED <<pre, spam>>
           /\ \/ /\ op' = call
                 /\ phase' = "live"
                 /\ Put("other", r.map, map)
                 /\ aliased' = r.shares
              \/ /\ op' = [call EXCEPT !.fate = "bad_alloc"]
                 /\ phase' = "exited"
                 /\ UNCHANGED <<map, other, aliased>>

\* t = the other object; the parameter's destructor deletes the array t had
TwoAssign ==
    /\ phase = "live"
    /\ other # NoMap
    /\ \E t \in Objects :
        LET r == operatorAssign(Object(t), Bystander(t))
            call == [NoOp EXCEPT !.name = "operator=", !.on = t]
        IN  /\ UNCHANGED <<pre, spam>>
            /\ \/ /\ op' = call
                  /\ phase' = "live"
                  /\ \E y \in Seen(t, r.param._table, TRUE) : Put(t, r.map, y)
                  /\ aliased' = r.shares
               \/ /\ op' = [call EXCEPT !.fate = "bad_alloc"]
                  /\ phase' = "exited"
                  /\ UNCHANGED <<map, other, aliased>>

\* swap(map, other)
TwoSwap ==
    /\ phase = "live"
    /\ other # NoMap
    /\ LET r == swap(map, other)
       IN  /\ map' = r.first
           /\ other' = r.second
    /\ op' = [NoOp EXCEPT !.name = "swap"]
    /\ UNCHANGED <<phase, pre, spam, aliased>>

TwoInsert ==
    /\ phase = "live"
    /\ \E t \in Objects, k \in TwoKeys, v \in Values :
        /\ Object(t) # NoMap
        /\ TwoFinish([NoOp EXCEPT !.name = "insert", !.on = t], t,
                     insert(Object(t), k, v))

TwoErase ==
    /\ phase = "live"
    /\ \E t \in Objects, k \in TwoKeys :
        /\ Object(t) # NoMap
        /\ TwoFinish([NoOp EXCEPT !.name = "erase", !.on = t], t,
                     erase(Object(t), k))

TwoSubscript ==
    /\ phase = "live"
    /\ \E t \in Objects, k \in TwoKeys :
        /\ Object(t) # NoMap
        /\ TwoFinish([NoOp EXCEPT !.name = "operator[]", !.on = t], t,
                     operatorSubscript(Object(t), k))

TwoClear ==
    /\ phase = "live"
    /\ \E t \in Objects :
        /\ Object(t) # NoMap
        /\ TwoFinish([NoOp EXCEPT !.name = "clear", !.on = t], t,
                     [map |-> clear(Object(t)), fate |-> "ok",
                      old |-> clear(Object(t))])

NextTwo ==
    \/ TwoConstruct
    \/ TwoCopy
    \/ TwoAssign
    \/ TwoSwap
    \/ TwoInsert
    \/ TwoErase
    \/ TwoSubscript
    \/ TwoClear

SpecTwo == Init /\ [][NextTwo]_vars

Both == phase = "live" /\ other # NoMap

\* --------------------------------------------------- a run of SpamDetector
\* The third specification is main of SpamDetector.cpp on a database file, a
\* message file and a threshold; map is databaseMap.
InitSpam ==
    /\ map = NoMap
    /\ phase = "none"
    /\ op = NoOp
    /\ pre = NoMap
    /\ other = NoMap
    /\ aliased = FALSE
    /\ spam \in {[NoSpam EXCEPT !.pc = "start", !.database = d, !.message = m,
                                !.threshold = t] :
                     d \in Databases, m \in Messages, t \in Thresholds}

\* threshold <= 0 throws InvalidInput: nothing is printed
SpamRejectThreshold ==
    /\ spam.pc = "start"
    /\ spam.threshold <= 0
    /\ spam' = [spam EXCEPT !.pc = "done", !.code = EXIT_FAILURE]
    /\ UNCHANGED <<map, phase, op, pre, other, aliased>>

\* HashMap<string, int> databaseMap; createDatabaseMap(...)
SpamCreateDatabaseMap ==
    /\ spam.pc = "start"
    /\ spam.threshold > 0
    /\ LET created == createDatabaseMap(spam.database)
       IN  /\ map' = created.databaseMap
           /\ spam' = [spam EXCEPT !.pc = "loaded",
                                   !.wordsLen = created.wordsLen]
    /\ phase' = "live"
    /\ UNCHANGED <<op, pre, other, aliased>>

\* generateScore(...) >= threshold, and what is printed
SpamClassify ==
    /\ spam.pc = "loaded"
    /\ spam' = [spam EXCEPT
                  !.pc = "done",
                  !.output =
                      IF generateScore(spam.message, map, spam.wordsLen)
                             >= spam.threshold
                      THEN "SPAM" ELSE "NOT_SPAM",
                  !.code = EXIT_SUCCESS]
    /\ UNCHANGED <<map, phase, op, pre, other, aliased>>

NextSpam ==
    \/ SpamRejectThreshold
    \/ SpamCreateDatabaseMap
    \/ SpamClassify

SpecSpam == InitSpam /\ [][NextSpam]_vars

\* ------------------------------------------------- what the claims speak of
\* <<bucket, position>> of every pair stored in the table
Slots(h) ==
    UNION {{<<b, i>> : i \in 1..Len(h._table[b])} : b \in DOMAIN h._table}

KeyAt(h, s) == h._table[s[1]][s[2]][1]
ValueAt(h, s) == h._table[s[1]][s[2]][2]

\* the key is stored somewhere in the table, whatever its bucket
Stored(h, key) == \E s \in Slots(h) : KeyAt(h, s) = key

RECURSIVE IsPowerOfTwo(_)
IsPowerOfTwo(n) ==
    n = 1 \/ (n > 1 /\ n % 2 = 0 /\ IsPowerOfTwo(n \div 2))

LowerHolds(h) == ~RatioBelow(h._size, h._capacity, h._lowerLoadFactor)
UpperHolds(h) == ~RatioAbove(h._size, h._capacity, h._upperLoadFactor)

Inserted == Live /\ op.name = "insert"
Erased == Live /\ op.name = "erase"
Subscripted == Live /\ op.name = "operator[]"
BulkLoaded == Live /\ op.name = "HashMap_vectors"

\* ------------------------------------------------------------------- C1
\* C1 as stated: on a table whose bounds the constructor accepted (here
\* even lower < upper), after every insert and every erase, if capacity > 1
\* then lowerLoadFactor <= size / capacity <= upperLoadFactor.
C1_LoadFactorInvariant ==
    /\ Inserted \/ Erased
    /\ map._lowerLoadFactor < map._upperLoadFactor
    /\ map._capacity > 1
    => LowerHolds(map) /\ UpperHolds(map)

\* C1 amended: after an insert that added its key, size / capacity is at most
\* upperLoadFactor; after an erase that removed its key and left a capacity
\* above 1 unchanged, size / capacity is at least lowerLoadFactor.
C1_LoadFactorAfterResizeCheck ==
    /\ Inserted /\ op.ret => UpperHolds(map)
    /\ Erased /\ op.ret /\ map._capacity = pre._capacity /\ map._capacity > 1
           => LowerHolds(map)

\* an insert grew the table by more than one doubling, and an erase left the
\* capacity alone because the lower bound held
C1_Witness ==
    \/ /\ Inserted /\ op.ret
       /\ map._capacity > TABLE_FACTOR * pre._capacity
    \/ /\ Erased /\ op.ret /\ map._capacity = pre._capacity
       /\ map._capacity > 1 /\ map._size > 0

\* ------------------------------------------------------------------- C2
\* C2: in every state with a table, capacity is a power of two and at least 1.
C2_CapacityPowerOfTwo ==
    Live => map._capacity >= 1 /\ IsPowerOfTwo(map._capacity)

\* an erase on a table of capacity 1 that is below its lower bound
C2_Witness ==
    /\ Erased /\ op.ret
    /\ pre._capacity = 1 /\ map._capacity = 1
    /\ ~LowerHolds(map)

\* ------------------------------------------------------------------- C3
\* C3: no two different slots of the table hold equal keys.
C3_NoDuplicateKeys ==
    Live => \A s, t \in Slots(map) : s # t => KeyAt(map, s) # KeyAt(map, t)

\* an insert of a key that is already there, second in its bucket, was refused
C3_Witness ==
    /\ Inserted /\ ~op.ret
    /\ \E s \in Slots(map) : KeyAt(map, s) = op.key /\ s[2] > 1

\* ------------------------------------------------------------------- C4
\* C4 as stated: after insert(k, v), at(k) returns v.
C4_InsertThenGet ==
    Inserted => at(map, op.key) = [threw |-> FALSE, value |-> op.value]

\* C4 amended: after an insert(k, v) that returned true, at(k) returns v;
\* after one that returned false, at(k) returns the value k had before.
C4_InsertThenGetIfAdded ==
    /\ Inserted /\ op.ret
           => at(map, op.key) = [threw |-> FALSE, value |-> op.value]
    /\ Inserted /\ ~op.ret
           => ~at(map, op.key).threw /\ at(map, op.key) = at(pre, op.key)

\* an insert put its key behind another one in the bucket, with another value
C4_Witness ==
    /\ Inserted /\ op.ret
    /\ LET bucket == map._table[_getIndex(op.key, map._capacity)]
       IN  Len(bucket) > 1 /\ bucket[1][2] # op.value

\* ------------------------------------------------------------------- C5
\* C5: after erase(k), present or not, containsKey(k) is false.
C5_EraseThenContains ==
    Erased => ~containsKey(map, op.key)

\* an erase removed a key that was not first in its bucket and halved the
\* table
C5_Witness ==
    /\ Erased /\ op.ret
    /\ map._capacity < pre._capacity
    /\ FindInBucket(pre._table[_getIndex(op.key, pre._capacity)], op.key) > 1

\* ------------------------------------------------------------------- C6
\* C6: insert(k, v) on a table that contains k returns false and leaves the
\* table as it was: size, capacity and every pair of every bucket.
C6_InsertPresentKey ==
    Inserted /\ containsKey(pre, op.key) => ~op.ret /\ map = pre

\* the key was present with another value than the one given
C6_Witness ==
    /\ Inserted /\ containsKey(pre, op.key)
    /\ at(pre, op.key).value # op.value

\* ------------------------------------------------------------------- C7
\* C7: erase(k) on a table that does not contain k returns false and leaves
\* the table as it was, also below the lower load factor.
C7_EraseAbsentKey ==
    Erased /\ ~containsKey(pre, op.key) => ~op.ret /\ map = pre

\* the erase of an absent key was repeated on a table that is below its lower
\* load factor and could be halved
C7_Witness ==
    /\ Erased /\ ~containsKey(pre, op.key)
    /\ pre = map /\ pre._capacity > 1 /\ ~LowerHolds(pre)
    /\ pre._size > 0

\* ------------------------------------------------------------------- C8
\* the value paired with the last occurrence of key in keyVector
LastValue(keyVector, valueVector, key) ==
    LET hits == {i \in 1..Len(keyVector) : keyVector[i] = key}
    IN  valueVector[CHOOSE i \in hits : \A j \in hits : j <= i]

C9_StrictBounds ==
    (op.name = "HashMap_bounds" /\ op.fate = "ok") =>
        IF 0 <= op.lower /\ op.lower < op.upper /\ op.upper <= LF_ONE
        THEN phase = "live"
        ELSE phase = "invalid_argument" /\ map = NoMap

\* ------------------------------------------------------------------ C10
\* C10: operator[] on a present key returns its value and leaves the table as
\* it was; on an absent key it adds the one pair (key, ValueT()), adds 1 to
\* size, leaves no load factor above the upper bound, keeps every other key's
\* value, and returns the value stored for the key in the table it leaves.
C10_Subscript ==
    Subscripted =>
        IF containsKey(pre, op.key)
        THEN map = pre /\ op.ref = at(pre, op.key).value
        ELSE /\ map._size = pre._size + 1
             /\ Cardinality(Slots(map)) = Cardinality(Slots(pre)) + 1
             /\ at(map, op.key) = [threw |-> FALSE, value |-> DefaultValue]
             /\ op.ref = at(map, op.key).value
             /\ \A k \in Keys \ {op.key} : at(map, k) = at(pre, k)
             /\ UpperHolds(map)

\* operator[] added a key and the table grew; and operator[] found a key
\* whose value is not ValueT()
C10_Witness ==
    /\ Subscripted
    /\ \/ ~containsKey(pre, op.key) /\ map._capacity > pre._capacity
                                    /\ pre._size > 0
       \/ containsKey(pre, op.key) /\ op.ref # DefaultValue

\* ------------------------------------------------------------------ C11
\* C11: on every table, at(k) and bucketSize(k) throw for a key that is
\* stored nowhere in the table, even when its bucket holds other pairs; for
\* a stored key at(k) returns the value stored with it and bucketSize(k)
\* the number of pairs in bucket hash(k) mod capacity. Neither returns a
\* table: they write to no member.
C11_AtAndBucketSize ==
    Live =>
        \A k \in Keys :
            IF Stored(map, k)
            THEN /\ ~at(map, k).threw
                 /\ \A s \in Slots(map) :
                        KeyAt(map, s) = k => ValueAt(map, s) = at(map, k).value
                 /\ ~bucketSize(map, k).threw
                 /\ bucketSize(map, k).value =
                        Len(map._table[Hash(k) % map._capacity])
            ELSE /\ at(map, k).threw
                 /\ bucketSize(map, k).threw

\* an absent key whose bucket holds the pair of a stored key
C11_Witness ==
    /\ Live
    /\ \E k, j \in Keys :
           /\ ~Stored(map, k)
           /\ Stored(map, j)
           /\ Hash(k) % map._capacity = Hash(j) % map._capacity
           /\ ~bucketSize(map, j).threw

\* ------------------------------------------------------------------ C12
\* C12: clear() leaves every bucket empty and size = 0, leaves the capacity
\* and both load factor bounds as they were (it does not shrink), and after
\* it containsKey is false for every key.
C12_Clear ==
    (Live /\ op.name = "clear") =>
        /\ DOMAIN map._table = 0..(pre._capacity - 1)
        /\ \A b \in DOMAIN map._table : map._table[b] = << >>
        /\ map._size = 0
        /\ map._capacity = pre._capacity
        /\ map._lowerLoadFactor = pre._lowerLoadFactor
        /\ map._upperLoadFactor = pre._upperLoadFactor
        /\ \A k \in Keys : ~containsKey(map, k)

\* clear() of a table that held pairs and whose load factor it takes below
\* the lower bound at a capacity above 1
C12_Witness ==
    /\ Live
    /\ op.name = "clear"
    /\ pre._size > 1
    /\ map._capacity > 1
    /\ map._capacity # INITIAL_CAPACITY
    /\ ~LowerHolds(map)

\* ------------------------------------------------------------------ C19
\* C19: erase(k) of a stored key returns true and takes 1 off size; the
\* capacity it leaves is half the old one if the new size / old capacity is
\* below the lower bound and the old capacity is above 1, and the old one
\* otherwise: never halved twice, never grown, never below 1.
C19_EraseHalvesOnce ==
    (Erased /\ Stored(pre, op.key)) =>
        /\ op.ret
        /\ map._size = pre._size - 1
        /\ map._capacity =
               IF /\ RatioBelow(pre._size - 1, pre._capacity,
                                pre._lowerLoadFactor)
                  /\ pre._capacity > 1
               THEN pre._capacity \div 2
               ELSE pre._capacity
        /\ map._capacity >= 1
        /\ map._capacity <= pre._capacity
        /\ 2 * map._capacity >= pre._capacity

\* an erase that halved the table and left it below the lower bound still,
\* at a capacity above 1
C19_Witness ==
    /\ Erased
    /\ op.ret
    /\ 2 * map._capacity = pre._capacity
    /\ map._capacity > 1
    /\ ~LowerHolds(map)

RECURSIVE BucketsIn(_, _)
BucketsIn(h, S) ==
    IF S = {} THEN << >>
    ELSE LET c == CHOOSE c \in S : \A d \in S : c <= d
         IN  h._table[c] \o BucketsIn(h, S \ {c})

\* all the buckets one after the other (the empty ones add nothing)
AllBuckets(h) ==
    BucketsIn(h, {c \in DOMAIN h._table : Len(h._table[c]) > 0})

\* C15: the loop from begin() to end() over a table that is not changed
\* meanwhile sees size() pairs: the stored pairs, each once, bucket after
\* bucket in ascending order and each bucket in the order of its vector,
\* empty buckets skipped; begin() == end() exactly on an empty table.
C15_IterationOrder ==
    Live =>
        LET visited == Iterate(map)
        IN  /\ visited = AllBuckets(map)
            /\ Len(visited) = map._size
            /\ \A i, j \in 1..Len(visited) :
                   visited[i][1] = visited[j][1] => i = j
            /\ IterEq(begin(map), end(map)) <=> map._size = 0

\* a table with an empty first bucket, a bucket of two pairs or more, and
\* a later bucket that holds a pair, with empty buckets behind it
C15_Witness ==
    /\ Live
    /\ \E b, c \in DOMAIN map._table :
           /\ b < c
           /\ c < map._capacity - 1
           /\ Len(map._table[0]) = 0
           /\ Len(map._table[b]) > 1
           /\ Len(map._table[c]) > 0
           /\ Len(map._table[map._capacity - 1]) = 0
    /\ Len(Iterate(map)) > 2

\* ------------------------------------------------------------------ C16
\* C16 as stated: on a table whose bounds the constructor accepted, every
\* insert, operator[] and erase runs to completion: the loop that doubles
\* newCapacity while size / newCapacity > upperLoadFactor reaches a capacity
\* that satisfies the bound, and the call returns.
C16_EveryCallReturns ==
    op.name \in {"insert", "operator[]", "erase"} =>
        /\ op.fate # "overflow"
        /\ phase # "hung"

\* ------------------------------------------------------------------ C17
Resizing == {"insert", "operator[]", "erase"}

\* C17: a call whose _reHash could not allocate ends the process, and the
\* object it leaves is the one _reHash found: the old capacity, the old
\* array with every pair where it was (the pair of the call's key added or
\* removed, as the call did before it resized). A call that returns with
\* another capacity has every other key's pair in the new array.
C17_ReHashAllOrNothing ==
    /\ op.fate = "bad_alloc" => phase = "exited"
    /\ (op.fate = "bad_alloc" /\ op.name \in Resizing) =>
           /\ map._capacity = pre._capacity
           /\ DOMAIN map._table = DOMAIN pre._table
           /\ \A b \in DOMAIN map._table :
                  b # _getIndex(op.key, pre._capacity) =>
                      map._table[b] = pre._table[b]
           /\ \A k \in Keys \ {op.key} : at(map, k) = at(pre, k)
           /\ Stored(map, op.key) <=> op.name # "erase"
           /\ Cardinality(Slots(map)) = map._size
    /\ (Live /\ op.name \in Resizing /\ map._capacity # pre._capacity) =>
           /\ DOMAIN map._table = 0..(map._capacity - 1)
           /\ \A k \in Keys \ {op.key} : at(map, k) = at(pre, k)
           /\ Cardinality(Slots(map)) = map._size

\* the process exited in the _reHash of an erase, on a table that holds
\* pairs at the capacity it had
C17_Witness ==
    /\ phase = "exited"
    /\ op.fate = "bad_alloc"
    /\ op.name = "erase"
    /\ map._size > 0
    /\ map._capacity = pre._capacity

\* ------------------------------------------------------------------ C13
\* the value stored with the key, wherever in the table its pair is
StoredValues(h, key) ==
    {ValueAt(h, s) : s \in {s \in Slots(h) : KeyAt(h, s) = key}}

\* the same keys, each with the same value, whatever the bucket and the
\* position of the pairs
SameMapping(a, b) ==
    \A k \in Keys : StoredValues(a, k) = StoredValues(b, k)

SameTable(a, b) ==
    /\ a._size = b._size
    /\ a._lowerLoadFactor = b._lowerLoadFactor
    /\ a._upperLoadFactor = b._upperLoadFactor
    /\ a._capacity = b._capacity
    /\ SameMapping(a, b)

Mutators == {"insert", "erase", "operator[]", "clear"}

\* C14: a step that copies a table (the copy constructor, or operator= into
\* the object op.on) leaves the source as it was and the target with the
\* source's mapping, size and bounds, equal to the source in both directions;
\* and every step that is an insert, erase, operator[] or clear on one of the
\* two objects leaves the other object - its pairs, size and capacity - as it
\* was, whether or not one was copied from the other.
C14_CopyIsIndependent ==
    [][ /\ (op'.name \in {"copy", "operator="} /\ op'.fate = "ok") =>
               LET source == IF op'.on = "map" THEN other ELSE map
                   sourceAfter == IF op'.on = "map" THEN other' ELSE map'
                   target == IF op'.on = "map" THEN map' ELSE other'
               IN  /\ sourceAfter = source
                   /\ SameMapping(target, source)
                   /\ target._size = source._size
                   /\ target._lowerLoadFactor = source._lowerLoadFactor
                   /\ target._upperLoadFactor = source._upperLoadFactor
                   /\ operatorEq(target, sourceAfter)
                   /\ operatorEq(sourceAfter, target)
        /\ op'.name \in Mutators =>
               IF op'.on = "map" THEN other' = other ELSE map' = map
      ]_vars

\* the copy constructor has just copied a table that holds two pairs or more
\* at a capacity other than the initial one
C14_Witness ==
    /\ Both
    /\ op.name = "copy"
    /\ map._size > 1
    /\ map._capacity # INITIAL_CAPACITY
    /\ operatorEq(other, map)

\* ------------------------------------------------------------------ C18
\* the phrases of the database as they are stored, lower-cased
StoredPhrases(database) ==
    {makeStringLowerCase(database[i][1]) : i \in 1..Len(database)}

\* the score stored with a phrase: that of the last line that has it
StoredScore(database, phrase) ==
    LET lines == {i \in 1..Len(database) :
                      makeStringLowerCase(database[i][1]) = phrase}
    IN  database[CHOOSE i \in lines : \A j \in lines : j <= i][2]

\* <<start, length>> of every window of the message whose length is that of
\* a phrase of the database
Windows(database, message) ==
    {w \in (0..Len(message)) \X {Len(p) : p \in StoredPhrases(database)} :
         w[1] + w[2] <= Len(message)}

RECURSIVE SumOfWindows(_, _, _)
SumOfWindows(database, message, windows) ==
    IF windows = {} THEN 0
    ELSE LET w == CHOOSE w \in windows : TRUE
             content == makeStringLowerCase(
                            SubSeq(message, w[1] + 1, w[1] + w[2]))
         IN  (IF content \in StoredPhrases(database)
              THEN StoredScore(database, content) ELSE 0)
             + SumOfWindows(database, message, windows \ {w})

AccumulatedScore(database, message) ==
    SumOfWindows(database, message, Windows(database, message))

InOwnBucket(h) ==
    \A s \in Slots(h) : s[1] = Hash(KeyAt(h, s)) % h._capacity

\* C21: between calls, every pair is stored in the bucket whose index is
\* hash(key) mod capacity for the capacity the table has now, after a rehash
\* that grew or shrank it, after the bulk constructor and after a copy as
\* well; so the scan of one bucket finds a key exactly when the key is
\* stored somewhere in the table: containsKey and at on every key, and the
\* insert, erase or operator[] that led to the state on its key.
C21_PairsInOwnBucket ==
    Live =>
        /\ InOwnBucket(map)
        /\ \A k \in Keys :
               /\ containsKey(map, k) <=> Stored(map, k)
               /\ ~at(map, k).threw <=> Stored(map, k)
        /\ op.name = "erase" => (op.ret <=> Stored(pre, op.key))
        /\ op.name = "insert" => (op.ret <=> ~Stored(pre, op.key))
        /\ op.name = "operator[]" =>
               (map._size = pre._size <=> Stored(pre, op.key))

\* an erase halved a table that holds two pairs, and the bucket of one of
\* them is not the one it had at the capacity before
C21_Witness ==
    /\ Erased /\ op.ret
    /\ map._capacity < pre._capacity
    /\ map._size > 1
    /\ \E s \in Slots(map) : s[1] # Hash(KeyAt(map, s)) % pre._capacity

\* ------------------------------------------------------------------ C22
\* C22: between calls, _size is the number of pairs in all the buckets
\* together, and is not negative, whatever constructors, inserts,
\* operator[]s, erases, clears and copies led to the state.
C22_SizeCountsPairs ==
    Live =>
        /\ map._size = Cardinality(Slots(map))
        /\ map._size >= 0

\* the bulk constructor was given a key twice and counted it once
C22_Witness ==
    /\ BulkLoaded
    /\ Len(op.keys) = Len(op.values)
    /\ map._size > 0
    /\ map._size < Len(op.keys)

\* ------------------------------------------------------------------ C23
\* the slots of the table that hold the key
SlotsOf(h, key) == {s \in Slots(h) : KeyAt(h, s) = key}

\* C23: after an insert, an operator[] or an erase on a key that returned,
\* with or without a rehash to a larger or smaller capacity, every other key
\* is stored exactly when it was stored before the call, in as many pairs
\* (one), with the value it had; and the lookups by bucket say the same.
C23_OtherKeysKept ==
    (Live /\ op.name \in Resizing) =>
        \A k \in Keys \ {op.key} :
            /\ Stored(map, k) <=> Stored(pre, k)
            /\ Cardinality(SlotsOf(map, k)) = Cardinality(SlotsOf(pre, k))
            /\ StoredValues(map, k) = StoredValues(pre, k)
            /\ containsKey(map, k) <=> containsKey(pre, k)
            /\ at(map, k) = at(pre, k)

\* an insert grew the table, and the pair of another key went to a bucket
\* that is not the one it had at the capacity before
C23_Witness ==
    /\ Inserted /\ op.ret
    /\ map._capacity > pre._capacity
    /\ \E s \in Slots(map) :
           /\ KeyAt(map, s) # op.key
           /\ s[1] # Hash(KeyAt(map, s)) % pre._capacity

\* ------------------------------------------------------------------ C24
\* the table has the bounds of HashMap(): 0.25 and 0.75
DefaultBounds(h) ==
    /\ h._lowerLoadFactor = DEFAULT_LOWER_LOAD_FACTOR
    /\ h._upperLoadFactor = DEFAULT_UPPER_LOAD_FACTOR

\* C24: a table with the default bounds has size / capacity <= 0.75 (that is
\* 4 * size <= 3 * capacity) after every call that returned: the
\* constructors, insert, operator[], erase and clear, a copy as well; an
\* erase that halves the table does not take it above the upper bound.
C24_UpperBoundOfDefaults ==
    (Live /\ DefaultBounds(map)) => 4 * map._size <= 3 * map._capacity

\* an erase halved a table with the default bounds that holds pairs, and
\* the halved table is within both bounds
C24_Witness ==
    /\ Erased /\ op.ret
    /\ DefaultBounds(map)
    /\ map._capacity < pre._capacity
    /\ map._size > 0
    /\ LowerHolds(map)

====
